---- MODULE Spec2Model ----
(***************************************************************************)
(* Model of de.rutsche.webgl/world.js: VertexBasedShape (a list of vertex  *)
(* attribute buffers, an optional element buffer and draw), the mesh       *)
(* generator GenerateParametricSurface with its subroutine makeVertex, and *)
(* the two meshes Torus and Sphere.                                        *)
(*                                                                         *)
(* Representation.                                                         *)
(*  - JavaScript `undefined` for a colour or an evaluator is the string    *)
(*    Undefined; an unassigned global variable and the null element buffer *)
(*    are the empty sequence, an assigned one is a one-element sequence.   *)
(*  - A Float32Array is a sequence of fixed length (index k of the array   *)
(*    is element k+1 of the sequence), zero-filled at creation; the value  *)
(*    an evaluator returns for component c at (uu,vv) is the symbolic      *)
(*    number <<evaluator, uu, vv, c>>.                                     *)
(*  - Surface parameters are real numbers.  A u value is kept exactly as   *)
(*    its numerator over M (u*M), a v value as its numerator over N (v*N), *)
(*    so umin + i*(umax-umin)/M is the integer umin*M + i*(umax-umin).     *)
(*    Angles of Torus and Sphere are in units of pi.                       *)
(***************************************************************************)
EXTENDS Integers, Sequences, FiniteSets

\* ---------------------------------------------------------------- bounds
MaxM == 2
MaxN == 2
MaxNumVertices == 1
MaxDataLen == 2
MaxIndices == 1
MaxBuffers == 2

Undefined == "undefined"
Zero == <<"0">>
Colors == {"A", "B"}
MaybeColor == Colors \cup {Undefined}
Domains == {[min |-> 0, max |-> 1], [min |-> 1, max |-> 3]}
Primitives == {"TRIANGLES", "LINES"}
AttrTypes == {"vertexPosition", "vertexColor"}

VARIABLES
    pc,          \* position of the caller: idle, gps, sphere, ready, error
    mesh,        \* the constructor that made the mesh
    op,          \* the operation called last, with its arguments
    glob,        \* the global object: attribute, h, u1, u2
    console,     \* warnings written with window.console.log
    glLog,       \* calls made on the rendering backend by the last draw
    shape,       \* the VertexBasedShape of the mesh
    obj,         \* the surface: its position, normal and texCoord members
    M, N,        \* grid resolution
    dom,         \* umin, umax, vmin, vmax
    col1, col2,  \* the two checkerboard colours
    vposition, vnormal, vcolor, vtexcoord,   \* the four Float32Arrays
    pos_i, col_i, nor_i, tex_i,              \* their write indices
    i, j, k,     \* loop counters; k is the vertex within the cell
    made,        \* the makeVertex calls so far: uu, vv, color
    evals,       \* number of evaluator calls so far
    vList, nList, tList, cList               \* the lists of Sphere

vars == <<pc, mesh, op, glob, console, glLog, shape, obj, M, N, dom, col1, col2,
          vposition, vnormal, vcolor, vtexcoord, pos_i, col_i, nor_i, tex_i,
          i, j, k, made, evals, vList, nList, tList, cList>>

meshVars == <<obj, M, N, dom, col1, col2, vposition, vnormal, vcolor,
              vtexcoord, pos_i, col_i, nor_i, tex_i, i, j, k, made, evals,
              vList, nList, tList, cList>>

\* -------------------------------------------------------------- helpers
\* new Float32Array(n): n zeros
Float32Array(n) == [x \in 1..n |-> Zero]

\* arr[at] = val on a typed array: a write outside the array is dropped
store(arr, at, val) ==
    IF at >= 0 /\ at < Len(arr) THEN [arr EXCEPT ![at + 1] = val] ELSE arr

\* component c of the vector evaluator f returns at (uu, vv)
component(f, uu, vv, c) == <<f, uu, vv, c>>

\* arr[at++] = vec[0]; arr[at++] = vec[1]; ...
RECURSIVE storeAll(_, _, _)
storeAll(arr, at, vec) ==
    IF vec = <<>> THEN arr
    ELSE storeAll(store(arr, at, Head(vec)), at + 1, Tail(vec))

\* buf.numVertices of a VertexAttributeBuffer: dataArray.length / numElements,
\* a real number, kept as the fraction num/den
bufNumVertices(numElements, length) == [num |-> length, den |-> numElements]

\* whether the integer n differs from the fraction f
differs(n, f) == n * f.den # f.num

VertexAttributeBuffer(attrType, dataType, numElements, length) ==
    [attrType |-> attrType, dataType |-> dataType, numElements |-> numElements,
     length |-> length, numVertices |-> bufNumVertices(numElements, length)]

ElementBuffer(numIndices) == [numElements |-> numIndices]

\* ------------------------------------------------------ VertexBasedShape
VertexBasedShape(primitiveType, numVertices) ==
    [vertexBuffers |-> <<>>, elementBuffer |-> <<>>,
     primitiveType |-> primitiveType, numVertices |-> numVertices]

pushBuffer(buffers, buf) == Append(buffers, buf)

wrongNumber(s, buf) == differs(s.numVertices, buf.numVertices)

\* a variant that rejects a buffer with the wrong number of vertices
addVertexAttributeStrict(w, attrType, dataType, numElements, length) ==
    LET buf == VertexAttributeBuffer(attrType, dataType, numElements, length)
    IN  IF wrongNumber(w.shape, buf)
        THEN [shape |-> w.shape,
              console |-> Append(w.console,
                                 [attrType |-> attrType,
                                  got |-> buf.numVertices,
                                  expected |-> w.shape.numVertices])]
        ELSE [shape |-> [w.shape EXCEPT
                            !.vertexBuffers = Append(w.shape.vertexBuffers, buf)],
              console |-> w.console]

\* w is the pair of the shape and the console; the result is the pair after
\* the call
addVertexAttribute(w, attrType, dataType, numElements, length) ==
    LET buf == VertexAttributeBuffer(attrType, dataType, numElements, length)
    IN  [shape |-> [w.shape EXCEPT
                       !.vertexBuffers = pushBuffer(w.shape.vertexBuffers, buf)],
         console |-> IF wrongNumber(w.shape, buf)
                     THEN Append(w.console,
                                 [attrType |-> attrType,
                                  got |-> buf.numVertices,
                                  expected |-> w.shape.numVertices])
                     ELSE w.console]

addElementIndices(s, numIndices) ==
    [s EXCEPT !.elementBuffer = <<ElementBuffer(numIndices)>>]

\* variant: the vertex count even when there is an element buffer
drawCountVertices(s) == s.numVertices
\* var n = this.elementBuffer ? this.elementBuffer.numElements : this.numVertices
drawCount(s) ==
    IF s.elementBuffer # <<>> THEN s.elementBuffer[1].numElements
    ELSE s.numVertices

activations(s) ==
    [a \in 1..Len(s.vertexBuffers) |->
        [call |-> "makeActive", arg |-> s.vertexBuffers[a]]]

\* the backend calls of one draw, in order
drawCalls(s) ==
    activations(s)
    \o (IF s.elementBuffer # <<>>
        THEN <<[call |-> "makeActiveElements", arg |-> s.elementBuffer[1]]>>
        ELSE <<>>)
    \o <<[call |-> "drawArrays",
          arg |-> [mode |-> s.primitiveType, first |-> 0,
                   count |-> drawCount(s)]]>>

\* -------------------------------------------- GenerateParametricSurface
\* variant: four vertices for each cell
numVerticesPerQuad(m, n) == m * n * 4
\* var numVertices = M * N * 6
numVerticesOf(m, n) == m * n * 6

\* the constructor up to the loops: the shape, the arrays and the indices
GenerateParametricSurface(o, m, n, du, dv, c1, c2) ==
    /\ obj' = o
    /\ M' = m /\ N' = n
    /\ dom' = [umin |-> du.min, umax |-> du.max,
               vmin |-> dv.min, vmax |-> dv.max]
    /\ col1' = c1 /\ col2' = c2
    /\ shape' = VertexBasedShape("TRIANGLES", numVerticesOf(m, n))
    /\ vposition' = Float32Array(numVerticesOf(m, n) * 3)
    /\ vnormal' = Float32Array(numVerticesOf(m, n) * 3)
    /\ vcolor' = Float32Array(numVerticesOf(m, n) * 3)
    /\ vtexcoord' = Float32Array(numVerticesOf(m, n) * 2)
    /\ pos_i' = 0 /\ col_i' = 0 /\ nor_i' = 0 /\ tex_i' = 0
    /\ i' = 1 /\ j' = 1 /\ k' = 0
    /\ made' = <<>>
    /\ evals' = 0
    /\ pc' = "gps"

\* Torus.normal assigns the undeclared variable h
normalEffect(g) ==
    IF obj.normal = "Torus.normal" THEN [g EXCEPT !.h = <<1>>] ELSE g

colorGiven(color) == color # Undefined

makeVertex(uu, vv, color) ==
    LET tex == <<component("texCoord", uu, vv, 0),
                 component("texCoord", uu, vv, 1)>>
        pos == <<component("position", uu, vv, 0),
                 component("position", uu, vv, 1),
                 component("position", uu, vv, 2)>>
        norm == <<component("normal", uu, vv, 0),
                  component("normal", uu, vv, 1),
                  component("normal", uu, vv, 2)>>
        rgb == <<<<color, 0>>, <<color, 1>>, <<color, 2>>>>
    IN  /\ IF obj.texCoord # Undefined
           THEN /\ vtexcoord' = storeAll(vtexcoord, tex_i, tex)
                /\ tex_i' = tex_i + Len(tex)
           ELSE UNCHANGED <<vtexcoord, tex_i>>
        /\ IF obj.position # Undefined
           THEN /\ vposition' = storeAll(vposition, pos_i, pos)
                /\ pos_i' = pos_i + Len(pos)
           ELSE UNCHANGED <<vposition, pos_i>>
        /\ IF obj.normal # Undefined
           THEN /\ vnormal' = storeAll(vnormal, nor_i, norm)
                /\ nor_i' = nor_i + Len(norm)
                /\ glob' = normalEffect(glob)
           ELSE UNCHANGED <<vnormal, nor_i, glob>>
        /\ IF colorGiven(color)
           THEN /\ vcolor' = storeAll(vcolor, col_i, rgb)
                /\ col_i' = col_i + Len(rgb)
           ELSE UNCHANGED <<vcolor, col_i>>
        /\ evals' = evals + (IF obj.texCoord # Undefined THEN 1 ELSE 0)
                          + (IF obj.position # Undefined THEN 1 ELSE 0)
                          + (IF obj.normal # Undefined THEN 1 ELSE 0)
        /\ made' = Append(made, [uu |-> uu, vv |-> vv, color |-> color])

\* variant: one row too many
outerCondOffByOne(ii) == ii <= M + 1
\* the conditions of the two loops
outerCond(ii) == ii <= M
innerCond(jj) == jj <= N

\* the parameters of cell (ii, jj), as numerators over M and over N
u0Of(ii) == dom.umin * M + (ii - 1) * (dom.umax - dom.umin)
uOf(ii) == dom.umin * M + ii * (dom.umax - dom.umin)
v0Of(jj) == dom.vmin * N + (jj - 1) * (dom.vmax - dom.vmin)
vOf(jj) == dom.vmin * N + jj * (dom.vmax - dom.vmin)

\* variant: stripes along i instead of a checkerboard
cellColorByRow(ii, jj) == IF ii % 2 = 0 THEN col1 ELSE col2
\* colors shall alternate between col1 and col2
cellColor(ii, jj) == IF (ii + jj) % 2 = 0 THEN col1 ELSE col2

\* variant: the second triangle wound the other way
cellVerticesSwapped(ii, jj) ==
    <<<<u0Of(ii), vOf(jj)>>, <<u0Of(ii), v0Of(jj)>>, <<uOf(ii), v0Of(jj)>>,
      <<uOf(ii), vOf(jj)>>, <<uOf(ii), v0Of(jj)>>, <<u0Of(ii), vOf(jj)>>>>
\* the six makeVertex calls of cell (ii, jj), in order
cellVertices(ii, jj) ==
    <<<<u0Of(ii), vOf(jj)>>, <<u0Of(ii), v0Of(jj)>>, <<uOf(ii), v0Of(jj)>>,
      <<uOf(ii), vOf(jj)>>, <<u0Of(ii), vOf(jj)>>, <<uOf(ii), v0Of(jj)>>>>

\* variant: one colour is enough
eitherColor == col1 # Undefined \/ col2 # Undefined
\* col1 != undefined && col2 != undefined
bothColors == col1 # Undefined /\ col2 # Undefined

\* the vertex buffer objects created after the loops
attachBuffers(w) ==
    LET w1 == IF obj.position # Undefined
              THEN addVertexAttribute(w, "vertexPosition", "FLOAT", 3,
                                      Len(vposition))
              ELSE w
        w2 == IF obj.normal # Undefined
              THEN addVertexAttribute(w1, "vertexNormal", "FLOAT", 3,
                                      Len(vnormal))
              ELSE w1
        w3 == IF obj.texCoord # Undefined
              THEN addVertexAttribute(w2, "vertexTexCoord", "FLOAT", 2,
                                      Len(vtexcoord))
              ELSE w2
    IN  IF bothColors
        THEN addVertexAttribute(w3, "vertexColor", "FLOAT", 3, Len(vcolor))
        ELSE w3

\* ------------------------------------------------------------- Sphere
\* variant: the rule of GenerateParametricSurface
sphereColorSameAsSurface(ii, jj) == IF (ii + jj) % 2 = 0 THEN col1 ELSE col2
\* i % 2 + j % 2 == 1 ? c1 : c2
sphereColor(ii, jj) == IF (ii % 2) + (jj % 2) = 1 THEN col1 ELSE col2

\* the corner points 1..4 of cell (ii, jj): u1 = ii and u2 = ii - 1 in units
\* of pi/N, v1 = 2*jj and v2 = 2*(jj - 1) in units of pi/M
spherePoint(p, ii, jj) ==
    CASE p = 1 -> <<ii, 2 * jj>>
      [] p = 2 -> <<ii, 2 * (jj - 1)>>
      [] p = 3 -> <<ii - 1, 2 * jj>>
      [] p = 4 -> <<ii - 1, 2 * (jj - 1)>>

\* the points pushed for one cell, in order
spherePoints == <<1, 3, 4, 1, 2, 4>>

RECURSIVE flatten(_)
flatten(ss) == IF ss = <<>> THEN <<>> ELSE Head(ss) \o flatten(Tail(ss))

\* what one cell pushes on vList, nList and tList
cellFloats(names, ii, jj) ==
    flatten([q \in 1..Len(spherePoints) |->
                [c \in 1..Len(names) |->
                    <<names[c]>> \o spherePoint(spherePoints[q], ii, jj)]])

\* what the loop over k pushes on cList
cellColors(color) ==
    flatten([q \in 1..6 |-> <<<<color, 0>>, <<color, 1>>, <<color, 2>>>>])

\* ------------------------------------------------------------- actions
Init ==
    /\ pc = "idle"
    /\ mesh = "none"
    /\ op = [name |-> "none"]
    /\ glob = [attribute |-> <<>>, h |-> <<>>, u1 |-> <<>>, u2 |-> <<>>]
    /\ console = <<>>
    /\ glLog = <<>>
    /\ shape = VertexBasedShape("none", 0)
    /\ obj = [position |-> Undefined, normal |-> Undefined,
              texCoord |-> Undefined]
    /\ M = 0 /\ N = 0
    /\ dom = [umin |-> 0, umax |-> 0, vmin |-> 0, vmax |-> 0]
    /\ col1 = Undefined /\ col2 = Undefined
    /\ vposition = <<>> /\ vnormal = <<>> /\ vcolor = <<>> /\ vtexcoord = <<>>
    /\ pos_i = 0 /\ col_i = 0 /\ nor_i = 0 /\ tex_i = 0
    /\ i = 0 /\ j = 0 /\ k = 0
    /\ made = <<>>
    /\ evals = 0
    /\ vList = <<>> /\ nList = <<>> /\ tList = <<>> /\ cList = <<>>

\* new GenerateParametricSurface(gl, obj, M, N, umin, umax, vmin, vmax, col1,
\* col2) on a surface of the caller's
NewSurface ==
    /\ pc = "idle"
    /\ \E p \in {Undefined, "obj.position"}, nn \in {Undefined, "obj.normal"},
          t \in {Undefined, "obj.texCoord"}, m \in 0..MaxM, n \in 0..MaxN,
          du \in Domains, dv \in Domains, c1 \in MaybeColor, c2 \in MaybeColor :
            GenerateParametricSurface(
                [position |-> p, normal |-> nn, texCoord |-> t],
                m, n, du, dv, c1, c2)
    /\ mesh' = "GenerateParametricSurface"
    /\ op' = [name |-> "GenerateParametricSurface"]
    /\ UNCHANGED <<glob, console, glLog, vList, nList, tList, cList>>

\* new Torus(gl, radius, radius2, N, M, col1, col2)
Torus ==
    /\ pc = "idle"
    /\ \E n \in 0..MaxN, m \in 0..MaxM, c1 \in MaybeColor, c2 \in MaybeColor :
            GenerateParametricSurface(
                [position |-> "Torus.position", normal |-> "Torus.normal",
                 texCoord |-> "Torus.texCoord"],
                m, n, [min |-> 0, max |-> 2], [min |-> 0, max |-> 2], c1, c2)
    /\ mesh' = "Torus"
    /\ op' = [name |-> "Torus"]
    /\ UNCHANGED <<glob, console, glLog, vList, nList, tList, cList>>

\* one makeVertex call of the loop body
GPSVertex ==
    /\ pc = "gps"
    /\ outerCond(i) /\ innerCond(j)
    /\ LET at == cellVertices(i, j)[k + 1]
       IN  makeVertex(at[1], at[2], cellColor(i, j))
    /\ IF k + 1 < Len(cellVertices(i, j))
       THEN k' = k + 1 /\ j' = j
       ELSE k' = 0 /\ j' = j + 1
    /\ UNCHANGED <<pc, mesh, op, console, glLog, shape, obj, M, N, dom, col1, col2,
                   i, vList, nList, tList, cList>>

\* the inner loop ends: i++
GPSNextRow ==
    /\ pc = "gps"
    /\ outerCond(i) /\ ~innerCond(j)
    /\ i' = i + 1 /\ j' = 1
    /\ UNCHANGED <<pc, mesh, op, glob, console, glLog, shape, obj, M, N, dom, col1,
                   col2, vposition, vnormal, vcolor, vtexcoord, pos_i, col_i,
                   nor_i, tex_i, k, made, evals, vList, nList, tList, cList>>

\* the outer loop ends: the buffers are attached
GPSAttach ==
    /\ pc = "gps"
    /\ ~outerCond(i)
    /\ LET w == attachBuffers([shape |-> shape, console |-> console])
       IN  shape' = w.shape /\ console' = w.console
    /\ pc' = "ready"
    /\ UNCHANGED <<mesh, op, glob, glLog>>
    /\ UNCHANGED meshVars

\* new Sphere(gl, r, N, M, c1, c2), up to the loops
Sphere ==
    /\ pc = "idle"
    /\ \E n \in 0..MaxN, m \in 0..MaxM, c1 \in MaybeColor, c2 \in MaybeColor :
            /\ N' = n /\ M' = m /\ col1' = c1 /\ col2' = c2
    /\ vList' = <<>> /\ nList' = <<>> /\ tList' = <<>> /\ cList' = <<>>
    /\ i' = 1 /\ j' = 1
    /\ pc' = "sphere"
    /\ mesh' = "Sphere"
    /\ op' = [name |-> "Sphere"]
    /\ UNCHANGED <<glob, console, glLog, shape, obj, dom, vposition, vnormal,
                   vcolor, vtexcoord, pos_i, col_i, nor_i, tex_i, k, made,
                   evals>>

\* one cell of the loops of Sphere; reading a component of an undefined
\* colour throws, and the exception leaves the constructor
SphereCell ==
    /\ pc = "sphere"
    /\ i <= N /\ j <= M
    /\ glob' = [glob EXCEPT !.u1 = <<i>>, !.u2 = <<i - 1>>]
    /\ vList' = vList \o cellFloats(<<"x", "y", "z">>, i, j)
    /\ nList' = nList \o cellFloats(<<"nx", "ny", "nz">>, i, j)
    /\ tList' = tList \o cellFloats(<<"s", "t">>, i, j)
    /\ IF sphereColor(i, j) = Undefined
       THEN pc' = "error" /\ UNCHANGED <<cList, j>>
       ELSE /\ cList' = cList \o cellColors(sphereColor(i, j))
            /\ j' = j + 1
            /\ pc' = pc
    /\ UNCHANGED <<mesh, op, console, glLog, shape, obj, M, N, dom, col1, col2,
                   vposition, vnormal, vcolor, vtexcoord, pos_i, col_i, nor_i,
                   tex_i, i, k, made, evals>>

SphereNextRow ==
    /\ pc = "sphere"
    /\ i <= N /\ ~(j <= M)
    /\ i' = i + 1 /\ j' = 1
    /\ UNCHANGED <<pc, mesh, op, glob, console, glLog, shape, obj, M, N, dom, col1,
                   col2, vposition, vnormal, vcolor, vtexcoord, pos_i, col_i,
                   nor_i, tex_i, k, made, evals, vList, nList, tList, cList>>

\* the loops end: the arrays and the shape are made from the lists
SphereFinish ==
    /\ pc = "sphere"
    /\ ~(i <= N)
    /\ vnormal' = nList /\ vtexcoord' = tList
    /\ vposition' = vList /\ vcolor' = cList
    /\ LET w0 == [shape |-> VertexBasedShape("TRIANGLES", Len(vList) \div 3),
                  console |-> console]
           w1 == addVertexAttribute(w0, "vertexPosition", "FLOAT", 3, Len(vList))
           w2 == addVertexAttribute(w1, "vertexColor", "FLOAT", 3, Len(cList))
           w3 == addVertexAttribute(w2, "vertexNormal", "FLOAT", 3, Len(nList))
           w4 == addVertexAttribute(w3, "vertexTexCoord", "FLOAT", 2, Len(tList))
       IN  shape' = w4.shape /\ console' = w4.console
    /\ pc' = "ready"
    /\ UNCHANGED <<mesh, op, glob, glLog, obj, M, N, dom, col1, col2, pos_i, col_i,
                   nor_i, tex_i, i, j, k, made, evals, vList, nList, tList,
                   cList>>

\* shape.draw(program); the loop counter is the undeclared variable attribute
Draw ==
    /\ pc = "ready"
    /\ glob' = [glob EXCEPT !.attribute = <<Len(shape.vertexBuffers)>>]
    /\ glLog' = drawCalls(shape)
    /\ op' = [name |-> "draw"]
    /\ UNCHANGED <<pc, mesh, console, shape>>
    /\ UNCHANGED meshVars

Next ==
    \/ NewSurface
    \/ Torus
    \/ GPSVertex
    \/ GPSNextRow
    \/ GPSAttach
    \/ Sphere
    \/ SphereCell
    \/ SphereNextRow
    \/ SphereFinish
    \/ Draw

Spec == Init /\ [][Next]_vars

\* ---------------------------------------- a shape used directly by a caller
\* new VertexBasedShape(gl, primitiveType, numVertices)
InitShape ==
    /\ pc = "ready"
    /\ mesh = "none"
    /\ op = [name |-> "VertexBasedShape"]
    /\ glob = [attribute |-> <<>>, h |-> <<>>, u1 |-> <<>>, u2 |-> <<>>]
    /\ console = <<>>
    /\ glLog = <<>>
    /\ \E p \in Primitives, n \in 0..MaxNumVertices :
            shape = VertexBasedShape(p, n)
    /\ obj = [position |-> Undefined, normal |-> Undefined,
              texCoord |-> Undefined]
    /\ M = 0 /\ N = 0
    /\ dom = [umin |-> 0, umax |-> 0, vmin |-> 0, vmax |-> 0]
    /\ col1 = Undefined /\ col2 = Undefined
    /\ vposition = <<>> /\ vnormal = <<>> /\ vcolor = <<>> /\ vtexcoord = <<>>
    /\ pos_i = 0 /\ col_i = 0 /\ nor_i = 0 /\ tex_i = 0
    /\ i = 0 /\ j = 0 /\ k = 0
    /\ made = <<>>
    /\ evals = 0
    /\ vList = <<>> /\ nList = <<>> /\ tList = <<>> /\ cList = <<>>

\* shape.addVertexAttribute(gl, attrType, gl.FLOAT, numElements, dataArray)
AddVertexAttribute ==
    /\ pc = "ready"
    /\ Len(shape.vertexBuffers) < MaxBuffers
    /\ \E a \in AttrTypes, ne \in {2, 3}, len \in 0..MaxDataLen :
         LET w == addVertexAttribute([shape |-> shape, console |-> console],
                                     a, "FLOAT", ne, len)
         IN  /\ shape' = w.shape
             /\ console' = w.console
             /\ op' = [name |-> "addVertexAttribute", attrType |-> a,
                       numElements |-> ne, length |-> len]
    /\ UNCHANGED <<pc, mesh, glob, glLog>>
    /\ UNCHANGED meshVars

\* shape.addElementIndices(gl, indices)
AddElementIndices ==
    /\ pc = "ready"
    /\ \E n \in 0..MaxIndices :
         /\ shape' = addElementIndices(shape, n)
         /\ op' = [name |-> "addElementIndices", length |-> n]
    /\ UNCHANGED <<pc, mesh, glob, console, glLog>>
    /\ UNCHANGED meshVars

NextShape ==
    \/ AddVertexAttribute
    \/ AddElementIndices
    \/ Draw

SpecShape == InitShape /\ [][NextShape]_vars

\* =============================================================== claims
FromSurface == mesh \in {"GenerateParametricSurface", "Torus"}

\* the buffers of the shape with the given name
buffersNamed(name) ==
    {b \in 1..Len(shape.vertexBuffers) : shape.vertexBuffers[b].attrType = name}

\* the stream attached under `name` was written for M*N*6 vertices of `size`
\* components each: write index, array length, attached length, vertex count
StreamComplete(name, index, array, size) ==
    /\ index = M * N * 6 * size
    /\ Len(array) = index
    /\ \A b \in buffersNamed(name) :
         /\ shape.vertexBuffers[b].length = index
         /\ ~differs(shape.numVertices, shape.vertexBuffers[b].numVertices)
    /\ buffersNamed(name) # {}

\* C1: for M, N >= 1, when GenerateParametricSurface has finished, every
\* stream whose source is present (position, normal, texCoord, colour with
\* both colours) was written for exactly M*N*6 vertices: its write index is
\* M*N*6 times its component count 3, 3, 2, 3, which is the length of the
\* array handed to addVertexAttribute and matches the declared numVertices;
\* and at no point of the walk does a write index exceed its array's length.
C1_StreamLengths ==
    (FromSurface /\ M >= 1 /\ N >= 1) =>
        /\ pos_i <= Len(vposition)
        /\ nor_i <= Len(vnormal)
        /\ tex_i <= Len(vtexcoord)
        /\ col_i <= Len(vcolor)
        /\ pc = "ready" =>
             /\ shape.numVertices = M * N * 6
             /\ obj.position # Undefined =>
                    StreamComplete("vertexPosition", pos_i, vposition, 3)
             /\ obj.normal # Undefined =>
                    StreamComplete("vertexNormal", nor_i, vnormal, 3)
             /\ obj.texCoord # Undefined =>
                    StreamComplete("vertexTexCoord", tex_i, vtexcoord, 2)
             /\ (col1 # Undefined /\ col2 # Undefined) =>
                    StreamComplete("vertexColor", col_i, vcolor, 3)

C1_Witness ==
    /\ FromSurface /\ pc = "ready" /\ M = 2 /\ N = 1
    /\ obj.position # Undefined /\ obj.normal # Undefined
    /\ obj.texCoord # Undefined
    /\ col1 # Undefined /\ col2 # Undefined
    /\ pos_i = 36 /\ tex_i = 24 /\ col_i = 36
    /\ Len(shape.vertexBuffers) = 4

\* the cell of the n-th makeVertex call (n from 1), rows of N cells
CellI(n) == ((n - 1) \div 6) \div N + 1
CellJ(n) == (((n - 1) \div 6) % N) + 1

\* C2: every one of the 6 vertices of cell (i,j), 1 <= i <= M, 1 <= j <= N,
\* is given the same colour: col1 if (i+j) mod 2 = 0 and col2 otherwise (so
\* it is col1 exactly for even i+j when the two colours differ); with both
\* colours supplied that colour is what the colour array holds for the vertex.
C2_CellColour ==
    FromSurface =>
        \A n \in 1..Len(made) :
            LET expected == IF (CellI(n) + CellJ(n)) % 2 = 0 THEN col1 ELSE col2
            IN  /\ CellI(n) \in 1..M /\ CellJ(n) \in 1..N
                /\ made[n].color = expected
                /\ col1 # col2 =>
                     (made[n].color = col1 <=> (CellI(n) + CellJ(n)) % 2 = 0)
                /\ (col1 # Undefined /\ col2 # Undefined) =>
                     \A c \in 0..2 : vcolor[3 * (n - 1) + c + 1] = <<expected, c>>

C2_Witness ==
    /\ FromSurface /\ pc = "ready" /\ M = 2 /\ N = 2
    /\ col1 = "A" /\ col2 = "B"
    /\ Len(made) = 24
    /\ made[1].color = "A" /\ made[7].color = "B"

\* the corners of a cell in emission order: 0 is the previous grid line
\* (u0 or v0), 1 the current one (u or v)
CornerOrder ==
    <<<<0, 1>>, <<0, 0>>, <<1, 0>>, <<1, 1>>, <<0, 1>>, <<1, 0>>>>

\* grid line g of the u and of the v direction, as numerators over M and N
GridU(g) == dom.umin * M + g * (dom.umax - dom.umin)
GridV(g) == dom.vmin * N + g * (dom.vmax - dom.vmin)

\* C3: cells are visited with i outermost (1..M) and j innermost (1..N), and
\* each cell emits 6 vertices at the corners (u0,v), (u0,v0), (u,v0), (u,v),
\* (u0,v), (u,v0): the n-th vertex emitted (n from 0) belongs to cell
\* floor(n/6) in row-major order and to corner n mod 6 of that sequence.
C3_EmissionOrder ==
    FromSurface =>
        /\ \A n \in 1..Len(made) :
             LET corner == CornerOrder[((n - 1) % 6) + 1]
             IN  /\ made[n].uu = GridU(CellI(n) - 1 + corner[1])
                 /\ made[n].vv = GridV(CellJ(n) - 1 + corner[2])
                 /\ obj.position # Undefined =>
                      \A c \in 0..2 :
                          3 * (n - 1) + c + 1 <= Len(vposition)
                          /\ vposition[3 * (n - 1) + c + 1]
                               = <<"position", made[n].uu, made[n].vv, c>>
        /\ (pc = "gps" /\ i <= M) =>
             Len(made) = ((i - 1) * N + (j - 1)) * 6 + k
        /\ pc = "ready" => Len(made) = M * N * 6

C3_Witness ==
    /\ FromSurface /\ pc = "ready" /\ M = 2 /\ N = 2
    /\ dom.umin = 1 /\ dom.vmin = 0
    /\ Len(made) = 24
    /\ obj.position # Undefined

\* C4: after GenerateParametricSurface the shape holds a buffer named
\* vertexPosition / vertexNormal / vertexTexCoord exactly if the surface
\* defines position / normal / texCoord, and one named vertexColor exactly if
\* both colours were supplied, with 3, 3, 2, 3 components; no name twice and
\* no other buffer.
C4_AttachedBuffers ==
    (FromSurface /\ pc = "ready") =>
        LET count(name) == Cardinality(buffersNamed(name))
            sized(name, size) ==
                \A b \in buffersNamed(name) :
                    shape.vertexBuffers[b].numElements = size
        IN  /\ count("vertexPosition") = (IF obj.position # Undefined THEN 1 ELSE 0)
            /\ count("vertexNormal") = (IF obj.normal # Undefined THEN 1 ELSE 0)
            /\ count("vertexTexCoord") = (IF obj.texCoord # Undefined THEN 1 ELSE 0)
            /\ count("vertexColor")
                 = (IF col1 # Undefined /\ col2 # Undefined THEN 1 ELSE 0)
            /\ sized("vertexPosition", 3) /\ sized("vertexNormal", 3)
            /\ sized("vertexTexCoord", 2) /\ sized("vertexColor", 3)
            /\ \A b \in 1..Len(shape.vertexBuffers) :
                 shape.vertexBuffers[b].attrType \in
                    {"vertexPosition", "vertexNormal", "vertexTexCoord",
                     "vertexColor"}

C4_Witness ==
    /\ FromSurface /\ pc = "ready"
    /\ obj.position = Undefined /\ obj.normal # Undefined
    /\ obj.texCoord # Undefined
    /\ col1 # Undefined /\ col2 = Undefined
    /\ M >= 1 /\ N >= 1
    /\ Len(shape.vertexBuffers) = 2

\* C5: with M = 0 or N = 0 GenerateParametricSurface ends without an error,
\* calls no evaluator, and leaves a shape of 0 declared vertices whose
\* attached streams all have length 0.
C5_EmptyGrid ==
    (FromSurface /\ (M = 0 \/ N = 0)) =>
        /\ evals = 0
        /\ made = <<>>
        /\ pc \in {"gps", "ready"}
        /\ pc = "gps" => ENABLED (GPSNextRow \/ GPSAttach)
        /\ pc = "ready" =>
             /\ shape.numVertices = 0
             /\ \A b \in 1..Len(shape.vertexBuffers) :
                  shape.vertexBuffers[b].length = 0

C5_Witness ==
    /\ FromSurface /\ pc = "ready" /\ M = 2 /\ N = 0
    /\ obj.position # Undefined /\ obj.normal # Undefined
    /\ Len(shape.vertexBuffers) >= 2

\* C6: addVertexAttribute with a buffer whose vertex count differs from the
\* shape's numVertices only writes a warning: the call returns, the buffer is
\* appended to vertexBuffers, and numVertices, primitiveType and elementBuffer
\* stay as they were; a matching buffer is appended too, without a warning.
C6_MismatchOnlyWarns ==
    [][op'.name = "addVertexAttribute" =>
        LET n == Len(shape.vertexBuffers)
            mismatch == shape.numVertices * op'.numElements # op'.length
        IN  /\ pc' = "ready"
            /\ Len(shape'.vertexBuffers) = n + 1
            /\ SubSeq(shape'.vertexBuffers, 1, n) = shape.vertexBuffers
            /\ shape'.vertexBuffers[n + 1].attrType = op'.attrType
            /\ shape'.vertexBuffers[n + 1].numElements = op'.numElements
            /\ shape'.vertexBuffers[n + 1].length = op'.length
            /\ shape'.numVertices = shape.numVertices
            /\ shape'.primitiveType = shape.primitiveType
            /\ shape'.elementBuffer = shape.elementBuffer
            /\ Len(console') = Len(console) + (IF mismatch THEN 1 ELSE 0)
            /\ SubSeq(console', 1, Len(console)) = console
            /\ mismatch => console'[Len(console')].attrType = op'.attrType
    ]_vars

C6_Witness ==
    /\ op.name = "addVertexAttribute"
    /\ Len(shape.vertexBuffers) = 2
    /\ Len(console) = 1
    /\ differs(shape.numVertices, shape.vertexBuffers[2].numVertices)
    /\ ~differs(shape.numVertices, shape.vertexBuffers[1].numVertices)
    /\ shape.elementBuffer # <<>>

\* C7: building a mesh (GenerateParametricSurface, Torus, Sphere) or drawing
\* a shape writes no variable visible to other calls: every global variable
\* keeps the value it had before.
C7_NoGlobalWritten ==
    glob = [attribute |-> <<>>, h |-> <<>>, u1 |-> <<>>, u2 |-> <<>>]

\* C8: in makeVertex a stream's write index advances only when its source is
\* present: the index of a stream whose evaluator is undefined stays 0, and
\* the colour index stays 0 unless both colours were supplied.
C8_IndexOnlyWhenPresent ==
    FromSurface =>
        /\ obj.texCoord = Undefined => tex_i = 0
        /\ obj.position = Undefined => pos_i = 0
        /\ obj.normal = Undefined => nor_i = 0
        /\ (col1 = Undefined \/ col2 = Undefined) => col_i = 0

\* C9: a draw, after any addVertexAttribute and addElementIndices calls,
\* activates every buffer of vertexBuffers once in insertion order, then the
\* element buffer if there is one, and last issues exactly one draw call, for
\* the element buffer's element count if there is one and for numVertices
\* otherwise, with the primitive kind given at construction.
C9_DrawSequence ==
    [][op'.name = "draw" =>
        LET n == Len(shape.vertexBuffers)
            e == IF shape.elementBuffer # <<>> THEN 1 ELSE 0
        IN  /\ shape' = shape
            /\ Len(glLog') = n + e + 1
            /\ \A a \in 1..n :
                 /\ glLog'[a].call = "makeActive"
                 /\ glLog'[a].arg = shape.vertexBuffers[a]
            /\ e = 1 =>
                 /\ glLog'[n + 1].call = "makeActiveElements"
                 /\ glLog'[n + 1].arg = shape.elementBuffer[1]
            /\ glLog'[n + e + 1].call = "drawArrays"
            /\ glLog'[n + e + 1].arg.mode = shape.primitiveType
            /\ glLog'[n + e + 1].arg.count
                 = (IF e = 1 THEN shape.elementBuffer[1].numElements
                    ELSE shape.numVertices)
            /\ Cardinality({a \in 1..Len(glLog') : glLog'[a].call = "drawArrays"})
                 = 1
    ]_vars

C9_Witness ==
    /\ op.name = "draw"
    /\ Len(shape.vertexBuffers) = 2
    /\ shape.vertexBuffers[1] # shape.vertexBuffers[2]
    /\ shape.elementBuffer # <<>>
    /\ shape.elementBuffer[1].numElements # shape.numVertices
    /\ Len(glLog) = 4

\* the cell of the n-th vertex of the sphere (n from 1), rows of M cells
SphereI(n) == ((n - 1) \div 6) \div M + 1
SphereJ(n) == (((n - 1) \div 6) % M) + 1

\* C10: in Sphere all 6 vertices of cell (i,j), 1 <= i <= N, 1 <= j <= M, get
\* colour c1 if (i mod 2) + (j mod 2) = 1, that is if i+j is odd, and c2
\* otherwise, the opposite of the surface generator's rule for the same
\* indices; a sphere that is built has N*M*6 vertices in each of its four
\* streams.
C10_SphereColours ==
    mesh = "Sphere" =>
        /\ Len(cList) % 18 = 0
        /\ \A n \in 1..(Len(cList) \div 3) :
             LET odd == (SphereI(n) + SphereJ(n)) % 2 = 1
                 expected == IF odd THEN col1 ELSE col2
             IN  /\ SphereI(n) \in 1..N /\ SphereJ(n) \in 1..M
                 /\ \A c \in 0..2 : cList[3 * (n - 1) + c + 1] = <<expected, c>>
                 /\ (expected = col1) = (cellColor(SphereI(n), SphereJ(n)) = col2)
        /\ pc = "ready" =>
             /\ shape.numVertices = N * M * 6
             /\ Len(vposition) = N * M * 6 * 3
             /\ Len(vnormal) = N * M * 6 * 3
             /\ Len(vtexcoord) = N * M * 6 * 2
             /\ Len(vcolor) = N * M * 6 * 3
             /\ Len(shape.vertexBuffers) = 4
             /\ \A b \in 1..4 :
                  ~differs(N * M * 6, shape.vertexBuffers[b].numVertices)

C10_Witness ==
    /\ mesh = "Sphere" /\ pc = "ready" /\ N = 2 /\ M = 2
    /\ col1 = "A" /\ col2 = "B"
    /\ cList[1] = <<"B", 0>> /\ cList[19] = <<"A", 0>>
    /\ Len(cList) = 72

====
